---- MODULE Spec2Model ----
(***************************************************************************)
(* The documented Data API (REST resource collection /data and its batch   *)
(* and search endpoints) together with the API client that consumes it.    *)
(* The repository holds the contract of the service as documentation and   *)
(* an example script that calls the client; the model follows those.       *)
(***************************************************************************)
EXTENDS Naturals, Integers, Sequences, FiniteSets, TLC

\* ------------------------------------------------------------------ bounds
MaxIds == 3        \* ids the server hands out in one run
MaxReqs == 3       \* requests sent in one run of the data specification
MaxTotal == 151    \* largest collection size of the pagination specification
MaxPage == 4       \* largest page number requested
MaxVersion == 2    \* changes of the server data while calls are in flight
MaxCalls == 4      \* calls of the debounced function in one run
MaxTime == 1000    \* milliseconds a run of the debounced function lasts
MaxPipe == 3       \* transformations in one transformData call
MaxItems == 3      \* items of the array passed to groupBy
MaxMemo == 4       \* calls of the memoized function and of cache.clear()
MaxOps == 5        \* operations passed to one rate limiter
MaxClock == 3000   \* milliseconds a run of the rate limiter lasts
MaxRetries == 4    \* largest maxRetries passed to retryWithBackoff
MaxWrapped == 2    \* calls of one function wrapped by withErrorHandling
MaxExisting == 2   \* items on the server before apiClientExamples runs

\* -------------------------------------------------------- program constants
HourLimit == 1000
BurstLimit == 100
DefaultLimit == 20
MaxLimit == 100
DefaultPage == 1
Delay == 300

VARIABLES
  store,      \* the resource collection: id -> record
  nextId,     \* next id the server assigns
  clock,      \* server time, one tick per change of the collection
  hourCount,  \* per key: requests served in the current hour
  minCount,   \* per key: requests served in the current minute
  sent,       \* requests sent so far in this run
  req,        \* the request being answered
  resp,       \* its response
  prev,       \* history: collection and quota use when req arrived
  origin,     \* history: id -> payload it was created from
  touched,    \* history: ids updated, patched or deleted since creation
  gone,       \* history: ids whose delete succeeded
  pg,         \* pagination specification: request and envelope
  call,       \* client specification: one client call in progress
  flight,     \* calls issued together through one client object
  deb,        \* a debounced function: its timer and what it has executed
  vs,         \* a validateSchema call: data, schema and result
  tf,         \* a transformData call: data, transformations and result
  gb,         \* a groupBy call: array, key and result
  memo,       \* a memoized function: its cache and what it has computed
  lim,        \* a rate limiter and the operations passed to it
  rb,         \* a retryWithBackoff call
  eh,         \* a function wrapped by withErrorHandling and its calls
  ex          \* a run of apiClientExamples and the items on the server

vars == <<store, nextId, clock, hourCount, minCount, sent, req, resp, prev,
          origin, touched, gone, pg, call, flight, deb, vs, tf, gb, memo, lim, rb,
          eh, ex>>

\* The variables of the data API and its client, and those of the utilities.
apiVars == <<store, nextId, clock, hourCount, minCount, sent, req, resp, prev,
             origin, touched, gone, pg, call>>
utilVars == <<flight, deb, vs, tf, gb, memo, lim, rb, eh, ex>>

\* ------------------------------------------------------------------- keys
ValidKeys == {"key-1"}
Keys == ValidKeys \cup {"bad-key", "no-key"}

\* --------------------------------------------------------------- payloads
Fields == <<"name", "description", "status", "tags", "metadata">>
FieldSet == {Fields[i] : i \in 1..Len(Fields)}
Statuses == {"active", "inactive"}

\* A payload names the fields it carries (has); the others hold the blank value.
Blank == [has |-> {}, name |-> "", description |-> "", status |-> "",
          tags |-> {}, metadata |-> {}]

PFull == [Blank EXCEPT !.has = FieldSet, !.name = "New Item",
            !.description = "Description of the new item", !.status = "active",
            !.tags = {"new", "example"}, !.metadata = {<<"category", "test">>}]
PMin == [Blank EXCEPT !.has = {"name", "description"}, !.name = "Item 1",
            !.description = "First item"]
PNoName == [Blank EXCEPT !.has = {"description"}, !.description = "First item"]
PBadStatus == [Blank EXCEPT !.has = {"status"}, !.status = "bogus"]
PPatch == [Blank EXCEPT !.has = {"description", "status"},
            !.description = "Partially updated description", !.status = "inactive"]
PRename == [Blank EXCEPT !.has = {"name"}, !.name = "Updated Item 1"]


\* Fields of a payload that fail validation. required: the name must be present
\* (create and full replace); a status, when given, is one of the two states.
InvalidFields(p, required) ==
  (IF required /\ ("name" \notin p.has \/ p.name = "") THEN {"name"} ELSE {})
    \cup (IF "status" \in p.has /\ p.status \notin Statuses THEN {"status"} ELSE {})

Message(f) == IF f = "name" THEN "Name is required" ELSE "Status is invalid"

DetailsFirstOnly(bad) ==
  LET inOrder == SelectSeq(Fields, LAMBDA f : f \in bad)
  IN IF inOrder = <<>> THEN <<>>
     ELSE <<[field |-> inOrder[1], message |-> Message(inOrder[1])]>>

\* One {field, message} entry per invalid field, in field order.
Details(bad) ==
  LET inOrder == SelectSeq(Fields, LAMBDA f : f \in bad)
  IN [i \in 1..Len(inOrder) |-> [field |-> inOrder[i], message |-> Message(inOrder[i])]]

\* ---------------------------------------------------------------- records
ServerMeta == {<<"version", "1">>, <<"created_by", "user_123">>}

Project(rec) == [has |-> rec.has, name |-> rec.name, description |-> rec.description,
                 status |-> rec.status, tags |-> rec.tags,
                 metadata |-> rec.metadata \ ServerMeta]

NewRecordDropsTags(id, p, now) ==
  [id |-> id, has |-> p.has, name |-> p.name, description |-> p.description,
   status |-> p.status, tags |-> {}, metadata |-> p.metadata \cup ServerMeta,
   created_at |-> now, updated_at |-> now]

NewRecordFixedId(id, p, now) ==
  [id |-> 1, has |-> p.has, name |-> p.name, description |-> p.description,
   status |-> p.status, tags |-> p.tags, metadata |-> p.metadata \cup ServerMeta,
   created_at |-> now, updated_at |-> now]

NewRecord(id, p, now) ==
  [id |-> id, has |-> p.has, name |-> p.name, description |-> p.description,
   status |-> p.status, tags |-> p.tags, metadata |-> p.metadata \cup ServerMeta,
   created_at |-> now, updated_at |-> now]

\* PUT: the payload replaces the record; id and created_at stay.
Replaced(rec, p, now) ==
  [id |-> rec.id, has |-> p.has, name |-> p.name, description |-> p.description,
   status |-> p.status, tags |-> p.tags,
   metadata |-> p.metadata \cup (rec.metadata \cap ServerMeta),
   created_at |-> rec.created_at, updated_at |-> now]

PatchedResets(rec, p, now) ==
  [id |-> rec.id, has |-> p.has, name |-> p.name, description |-> p.description,
   status |-> p.status, tags |-> p.tags,
   metadata |-> p.metadata \cup (rec.metadata \cap ServerMeta),
   created_at |-> rec.created_at, updated_at |-> now]

\* PATCH: only the fields the payload carries change.
Patched(rec, p, now) ==
  [id |-> rec.id, has |-> rec.has \cup p.has,
   name |-> IF "name" \in p.has THEN p.name ELSE rec.name,
   description |-> IF "description" \in p.has THEN p.description ELSE rec.description,
   status |-> IF "status" \in p.has THEN p.status ELSE rec.status,
   tags |-> IF "tags" \in p.has THEN p.tags ELSE rec.tags,
   metadata |-> IF "metadata" \in p.has
                  THEN p.metadata \cup (rec.metadata \cap ServerMeta) ELSE rec.metadata,
   created_at |-> rec.created_at, updated_at |-> now]

Ids == 1..MaxIds
Exists(id) == id \in DOMAIN store
WithoutNothing(s, ids) == s

Without(s, ids) == [i \in DOMAIN s \ ids |-> s[i]]
With(s, id, rec) == [i \in DOMAIN s \cup {id} |-> IF i = id THEN rec ELSE s[i]]


\* ----------------------------------------------------- requests, responses
\* op is the endpoint; method is the client method that sent the request.
NoReq == [op |-> "none", method |-> "", key |-> "no-key", id |-> 0, payload |-> Blank,
          items |-> <<>>, ids |-> <<>>, page |-> 0, limit |-> 0, q |-> ""]

NoPage == [current_page |-> 0, per_page |-> 0, total |-> 0, total_pages |-> 0,
           has_next |-> FALSE, has_prev |-> FALSE]

\* remaining = -1: the response carries no X-RateLimit-Remaining header.
Base == [status |-> 0, code |-> "", details |-> <<>>, data |-> <<>>,
         summary |-> [done |-> 0, failed |-> 0], errors |-> <<>>,
         pagination |-> NoPage, total |-> 0, remaining |-> -1]

Ok(data) == [Base EXCEPT !.status = 200, !.data = data]
Created(data) == [Base EXCEPT !.status = 201, !.data = data]
Error(status, code) == [Base EXCEPT !.status = status, !.code = code]
NotFound == Error(404, "NOT_FOUND")
Invalid(bad) == [Base EXCEPT !.status = 400, !.code = "VALIDATION_ERROR",
                             !.details = Details(bad)]

\* ------------------------------------------------- authentication, quota
AdmitAnyKey(k) ==
  IF k = "no-key" THEN "unauthorized"
  ELSE IF hourCount[k] >= HourLimit \/ minCount[k] >= BurstLimit THEN "limited"
  ELSE "ok"

AdmitOneMore(k) ==
  IF k \notin ValidKeys THEN "unauthorized"
  ELSE IF hourCount[k] > HourLimit \/ minCount[k] >= BurstLimit THEN "limited"
  ELSE "ok"

Admit(k) ==
  IF k \notin ValidKeys THEN "unauthorized"
  ELSE IF hourCount[k] >= HourLimit \/ minCount[k] >= BurstLimit THEN "limited"
  ELSE "ok"

Remaining(served) == IF served >= HourLimit THEN 0 ELSE HourLimit - served

\* The request is turned away before it reaches a handler.
Refuse(r) ==
  /\ Admit(r.key) # "ok"
  /\ req' = r
  /\ prev' = [store |-> store, hour |-> hourCount, min |-> minCount]
  /\ resp' = IF Admit(r.key) = "unauthorized"
               THEN Error(401, "UNAUTHORIZED")
               ELSE [Error(429, "RATE_LIMITED") EXCEPT
                       !.remaining = Remaining(hourCount[r.key])]
  /\ UNCHANGED <<store, nextId, clock, hourCount, minCount, origin, touched, gone, pg, call, utilVars>>

\* The request is counted against the key's quota and answered with body.
Accept(r, body) ==
  /\ Admit(r.key) = "ok"
  /\ req' = r
  /\ prev' = [store |-> store, hour |-> hourCount, min |-> minCount]
  /\ hourCount' = [hourCount EXCEPT ![r.key] = @ + 1]
  /\ minCount' = [minCount EXCEPT ![r.key] = @ + 1]
  /\ resp' = [body EXCEPT !.remaining = Remaining(hourCount[r.key] + 1)]
  /\ UNCHANGED <<pg, call, utilVars>>

ReadOnly == UNCHANGED <<store, nextId, clock, origin, touched, gone>>

\* A run of the data specification sends at most MaxReqs requests. A request
\* with a bad key never reaches a handler, so one request of each operation (the
\* one marked first) stands for all of them.
Sendable(k, first) == sent < MaxReqs /\ (k \in ValidKeys \/ first) /\ sent' = sent + 1

\* ------------------------------------------------------------- pagination
EnvelopeFloor(page, limit, total) ==
  LET cur == IF page = 0 THEN DefaultPage ELSE page
      per == IF limit = 0 THEN DefaultLimit
             ELSE IF limit > MaxLimit THEN MaxLimit ELSE limit
      pages == total \div per
  IN [current_page |-> cur, per_page |-> per, total |-> total,
      total_pages |-> pages, has_next |-> cur < pages, has_prev |-> cur > 1]

Envelope(page, limit, total) ==
  LET cur == IF page = 0 THEN DefaultPage ELSE page
      per == IF limit = 0 THEN DefaultLimit
             ELSE IF limit > MaxLimit THEN MaxLimit ELSE limit
      pages == (total + per - 1) \div per
  IN [current_page |-> cur, per_page |-> per, total |-> total,
      total_pages |-> pages, has_next |-> cur < pages, has_prev |-> cur > 1]

Max(S) == CHOOSE m \in S : \A x \in S : x <= m

\* Default order: created_at descending (ids are handed out in creation order).
RECURSIVE Newest(_)
Newest(S) == IF S = {} THEN <<>> ELSE <<Max(S)>> \o Newest(S \ {Max(S)})

PageOf(seq, env) ==
  LET first == (env.current_page - 1) * env.per_page + 1
      last == IF env.current_page * env.per_page < Len(seq)
                THEN env.current_page * env.per_page ELSE Len(seq)
  IN IF first > last THEN <<>> ELSE SubSeq(seq, first, last)

Records(idseq) == [i \in 1..Len(idseq) |-> store[idseq[i]]]

\* ---------------------------------------------------------------- GET /data
ListReq(k, page, limit) == [NoReq EXCEPT !.op = "list", !.key = k, !.page = page, !.limit = limit]

DoList(r) ==
  \/ Refuse(r)
  \/ /\ r.limit > MaxLimit
     /\ Accept(r, Error(400, "INVALID_REQUEST"))
     /\ ReadOnly
  \/ LET env == Envelope(r.page, r.limit, Cardinality(DOMAIN store))
     IN /\ Accept(r, [Ok(Records(PageOf(Newest(DOMAIN store), env))) EXCEPT
                        !.pagination = env, !.total = env.total])
        /\ ReadOnly

List == \E k \in Keys, pl \in {<<0, 0>>, <<1, 1>>, <<2, 1>>, <<1, 2>>, <<1, MaxLimit + 1>>} :
          Sendable(k, pl = <<0, 0>>) /\ DoList(ListReq(k, pl[1], pl[2]))

\* ----------------------------------------------------------- GET /data/{id}
GetReq(k, id) == [NoReq EXCEPT !.op = "get", !.key = k, !.id = id]

Lookup(id) == IF Exists(id) THEN Ok(<<store[id]>>) ELSE NotFound

DoGet(r) ==
  \/ Refuse(r)
  \/ Accept(r, Lookup(r.id)) /\ ReadOnly

GetData == \E k \in Keys, id \in Ids : Sendable(k, id = 1) /\ DoGet(GetReq(k, id))

\* --------------------------------------------------------------- POST /data
CreateReq(k, p) == [NoReq EXCEPT !.op = "create", !.key = k, !.payload = p]

DoCreate(r) ==
  \/ Refuse(r)
  \/ /\ InvalidFields(r.payload, TRUE) # {}
     /\ Accept(r, Invalid(InvalidFields(r.payload, TRUE)))
     /\ ReadOnly
  \/ /\ InvalidFields(r.payload, TRUE) = {}
     /\ nextId <= MaxIds
     /\ LET rec == NewRecord(nextId, r.payload, clock + 1)
        IN /\ Accept(r, Created(<<rec>>))
           /\ store' = With(store, nextId, rec)
           /\ origin' = With(origin, nextId, r.payload)
     /\ nextId' = nextId + 1
     /\ clock' = clock + 1
     /\ UNCHANGED <<touched, gone>>

CreateData == \E k \in Keys, p \in {PFull, PNoName, PBadStatus} :
                Sendable(k, p = PFull) /\ DoCreate(CreateReq(k, p))

\* ------------------------------------------------ PUT, PATCH /data/{id}
UpdateReq(op, m, k, id, p) ==
  [NoReq EXCEPT !.op = op, !.method = m, !.key = k, !.id = id, !.payload = p]

DoUpdate(r) ==
  LET full == r.op = "update"
      bad == InvalidFields(r.payload, full)
  IN \/ Refuse(r)
     \/ /\ ~Exists(r.id)
        /\ Accept(r, NotFound)
        /\ ReadOnly
     \/ /\ Exists(r.id)
        /\ bad # {}
        /\ Accept(r, Invalid(bad))
        /\ ReadOnly
     \/ /\ Exists(r.id)
        /\ bad = {}
        /\ LET rec == IF full THEN Replaced(store[r.id], r.payload, clock + 1)
                              ELSE Patched(store[r.id], r.payload, clock + 1)
           IN /\ Accept(r, Ok(<<rec>>))
              /\ store' = With(store, r.id, rec)
        /\ touched' = touched \cup {r.id}
        /\ clock' = clock + 1
        /\ UNCHANGED <<nextId, origin, gone>>

\* PUT /data/{id}, sent as a plain request.
PutData == \E k \in Keys, id \in Ids, p \in {PMin, PFull, PBadStatus} :
             /\ Sendable(k, id = 1 /\ p = PMin)
             /\ DoUpdate(UpdateReq("update", "", k, id, p))

\* PATCH /data/{id}, sent as a plain request.
PatchData == \E k \in Keys, id \in Ids, p \in {PPatch, PRename, PBadStatus} :
               /\ Sendable(k, id = 1 /\ p = PPatch)
               /\ DoUpdate(UpdateReq("patch", "", k, id, p))

\* client.updateData(id, payload): the payload is a partial object, and the
\* request that updates data is the PATCH.
UpdateData == \E k \in Keys, id \in Ids, p \in {PPatch, PRename} :
                /\ Sendable(k, id = 1 /\ p = PPatch)
                /\ DoUpdate(UpdateReq("patch", "updateData", k, id, p))

\* -------------------------------------------------------- DELETE /data/{id}
DeleteReq(k, id) == [NoReq EXCEPT !.op = "delete", !.key = k, !.id = id]

DoDelete(r) ==
  \/ Refuse(r)
  \/ /\ ~Exists(r.id)
     /\ Accept(r, NotFound)
     /\ ReadOnly
  \/ /\ Exists(r.id)
     /\ Accept(r, Ok(<<>>))
     /\ store' = Without(store, {r.id})
     /\ touched' = touched \cup {r.id}
     /\ gone' = gone \cup {r.id}
     /\ clock' = clock + 1
     /\ UNCHANGED <<nextId, origin>>

DeleteData == \E k \in Keys, id \in Ids : Sendable(k, id = 1) /\ DoDelete(DeleteReq(k, id))

\* ------------------------------------------------------------- batch items
Item(id, p) == [id |-> id, payload |-> p]

\* The ids of S in ascending order.
RECURSIVE Ascending(_)
Ascending(S) == IF S = {} THEN <<>> ELSE Append(Ascending(S \ {Max(S)}), Max(S))

Range(seq) == {seq[i] : i \in 1..Len(seq)}

\* The running result of a batch: the collection, the ids handed out, the
\* records answered, the ids that were applied and the per-item errors.
Start == [store |-> store, nextId |-> nextId, origin |-> origin,
          data |-> <<>>, done |-> {}, errors |-> <<>>]

Fail(acc, id, why) == [acc EXCEPT !.errors = Append(@, [id |-> id, error |-> why])]

\* ------------------------------------------------------- POST /data/batch
CreateOneOrAbort(acc, i, p, now) ==
  IF InvalidFields(p, TRUE) # {} THEN Fail(Start, i, "Validation failed")
  ELSE LET rec == NewRecord(acc.nextId, p, now)
       IN [acc EXCEPT !.store = With(@, acc.nextId, rec),
                      !.origin = With(@, acc.nextId, p),
                      !.nextId = @ + 1,
                      !.data = Append(@, rec),
                      !.done = @ \cup {acc.nextId}]

CreateOne(acc, i, p, now) ==
  IF InvalidFields(p, TRUE) # {} THEN Fail(acc, i, "Validation failed")
  ELSE LET rec == NewRecord(acc.nextId, p, now)
       IN [acc EXCEPT !.store = With(@, acc.nextId, rec),
                      !.origin = With(@, acc.nextId, p),
                      !.nextId = @ + 1,
                      !.data = Append(@, rec),
                      !.done = @ \cup {acc.nextId}]

RECURSIVE CreateAll(_, _, _)
CreateAll(items, n, now) ==
  IF n = 0 THEN Start
  ELSE CreateOne(CreateAll(items, n - 1, now), n, items[n].payload, now)

\* An error entry of a batch create names the position of the item it is about.
BatchCreateReq(k, items) == [NoReq EXCEPT !.op = "batchCreate", !.key = k, !.items = items]

Summary(acc, n) ==
  [Ok(acc.data) EXCEPT !.summary = [done |-> Cardinality(acc.done),
                                    failed |-> Len(acc.errors)],
                       !.errors = acc.errors]

DoBatchCreate(r) ==
  \/ Refuse(r)
  \/ LET acc == CreateAll(r.items, Len(r.items), clock + 1)
     IN /\ acc.nextId <= MaxIds + 1
        /\ Accept(r, Summary(acc, Len(r.items)))
        /\ store' = acc.store
        /\ nextId' = acc.nextId
        /\ origin' = acc.origin
        /\ clock' = clock + 1
        /\ UNCHANGED <<touched, gone>>

BatchCreate ==
  \E k \in Keys, ps \in {<<PMin, PFull>>, <<PMin, PNoName>>, <<PBadStatus, PMin>>, <<PNoName>>} :
    /\ Sendable(k, ps = <<PMin, PFull>>)
    /\ DoBatchCreate(BatchCreateReq(k, [i \in 1..Len(ps) |-> Item(0, ps[i])]))

\* -------------------------------------------------------- PUT /data/batch
UpdateOne(acc, it, now) ==
  IF it.id \notin DOMAIN acc.store THEN Fail(acc, it.id, "Not found")
  ELSE IF InvalidFields(it.payload, FALSE) # {} THEN Fail(acc, it.id, "Validation failed")
  ELSE LET rec == Patched(acc.store[it.id], it.payload, now)
       IN [acc EXCEPT !.store = With(@, it.id, rec),
                      !.data = Append(@, rec),
                      !.done = @ \cup {it.id}]

RECURSIVE UpdateAll(_, _, _)
UpdateAll(items, n, now) ==
  IF n = 0 THEN Start ELSE UpdateOne(UpdateAll(items, n - 1, now), items[n], now)

BatchUpdateReq(k, items) == [NoReq EXCEPT !.op = "batchUpdate", !.key = k, !.items = items]

DoBatchUpdate(r) ==
  \/ Refuse(r)
  \/ LET acc == UpdateAll(r.items, Len(r.items), clock + 1)
     IN /\ Accept(r, [Summary(acc, Len(r.items)) EXCEPT
                        !.summary.done = Len(acc.data)])
        /\ store' = acc.store
        /\ touched' = touched \cup acc.done
        /\ clock' = clock + 1
        /\ UNCHANGED <<nextId, origin, gone>>

BatchUpdate ==
  \E k \in Keys, id \in Ids, p \in {PRename, PBadStatus} :
    /\ Sendable(k, id = 1 /\ p = PRename)
    /\ DoBatchUpdate(BatchUpdateReq(k, <<Item(id, p), Item(1, PPatch)>>))

\* ----------------------------------------------------- DELETE /data/batch
DeleteOneQuiet(acc, id) ==
  IF id \notin DOMAIN acc.store THEN acc
  ELSE [acc EXCEPT !.store = Without(@, {id}), !.done = @ \cup {id}]

DeleteOne(acc, id) ==
  IF id \notin DOMAIN acc.store THEN Fail(acc, id, "Not found")
  ELSE [acc EXCEPT !.store = Without(@, {id}), !.done = @ \cup {id}]

RECURSIVE DeleteAll(_, _)
DeleteAll(ids, n) ==
  IF n = 0 THEN Start ELSE DeleteOne(DeleteAll(ids, n - 1), ids[n])

BatchDeleteReq(k, ids) == [NoReq EXCEPT !.op = "batchDelete", !.key = k, !.ids = ids]

DoBatchDelete(r) ==
  \/ Refuse(r)
  \/ LET acc == DeleteAll(r.ids, Len(r.ids))
     IN /\ Accept(r, Summary(acc, Len(r.ids)))
        /\ store' = acc.store
        /\ touched' = touched \cup acc.done
        /\ gone' = gone \cup acc.done
        /\ clock' = clock + 1
        /\ UNCHANGED <<nextId, origin>>

BatchDelete ==
  \E k \in Keys, ids \in {Ascending(S) : S \in SUBSET Ids} \cup {<<2, 1>>, <<1, 1>>} :
    /\ Sendable(k, ids = <<>>)
    /\ DoBatchDelete(BatchDeleteReq(k, ids))

\* ---------------------------------------------------------------- GET /search
SearchReq(k, q) == [NoReq EXCEPT !.op = "search", !.key = k, !.q = q]

Matches(q) == {id \in DOMAIN store : store[id].name = q \/ store[id].description = q}

DoSearch(r) ==
  \/ Refuse(r)
  \/ /\ Accept(r, [Ok(Records(Newest(Matches(r.q)))) EXCEPT
                     !.total = Cardinality(Matches(r.q))])
     /\ ReadOnly

Search == \E k \in Keys, q \in {"New Item", "First item"} :
            Sendable(k, q = "New Item") /\ DoSearch(SearchReq(k, q))

\* ------------------------------------------------------------ specification
NoCall == [method |-> "", retries |-> 0, attempts |-> 0, timeouts |-> 0,
           state |-> "idle", status |-> 0, code |-> ""]

NoPg == [page |-> 0, limit |-> 0, total |-> 0, status |-> 0, env |-> NoPage]

\* The utilities before anything was called.
NoFlight == [data |-> [r \in {"users", "products"} |-> 0], changes |-> 0,
             calls |-> <<>>, order |-> <<>>, last |-> <<>>, results |-> <<>>]
NoDeb == [now |-> 0, timer |-> -1, pending |-> "", calls |-> <<>>, executed |-> <<>>]
NoVs == [data |-> <<>>, schema |-> <<>>, done |-> FALSE,
         result |-> [isValid |-> FALSE, errors |-> <<>>, warnings |-> <<>>]]
NoTf == [data |-> <<>>, before |-> <<>>, transformations |-> <<>>, done |-> FALSE,
         seen |-> <<>>, result |-> <<>>]
NoGb == [array |-> <<>>, keyOrFunc |-> "", done |-> FALSE, result |-> <<>>]
NoMemo == [cache |-> <<>>, computations |-> 0, clears |-> 0, log |-> <<>>]
NoLim == [requestsPerSecond |-> 0, interval |-> 0, lastRequestTime |-> 0,
          now |-> 0, ops |-> <<>>]
NoRb == [maxRetries |-> 0, baseDelay |-> 0, attempt |-> 0, pc |-> "idle", calls |-> 0,
         running |-> 0, log |-> <<>>, waits |-> <<>>, outcome |-> <<>>]
NoEh == [fn |-> <<>>, pc |-> "idle", args |-> <<>>, outcome |-> <<>>,
         console |-> <<>>, settled |-> <<>>]
NoThrown == [name |-> "", status |-> 0]
NoEx == [pc |-> "idle", items |-> {}, nextId |-> 0, dataResponse |-> <<>>,
         createdItem |-> 0, thrown |-> NoThrown, console |-> <<>>, deleted |-> {}]

UtilsIdle ==
  /\ flight = NoFlight
  /\ deb = NoDeb
  /\ vs = NoVs
  /\ tf = NoTf
  /\ gb = NoGb
  /\ memo = NoMemo
  /\ lim = NoLim
  /\ rb = NoRb
  /\ eh = NoEh /\ ex = NoEx

\* The data API before any request, with no quota used.
ApiIdle ==
  /\ store = <<>>
  /\ nextId = 1
  /\ clock = 0
  /\ hourCount = [k \in Keys |-> 0]
  /\ minCount = [k \in Keys |-> 0]
  /\ sent = 0
  /\ req = NoReq
  /\ resp = Base
  /\ prev = [store |-> store, hour |-> hourCount, min |-> minCount]
  /\ origin = <<>>
  /\ touched = {}
  /\ gone = {}
  /\ pg = NoPg
  /\ call = NoCall

Init ==
  /\ store = <<>>
  /\ nextId = 1
  /\ clock = 0
  /\ hourCount \in {[k \in Keys |-> IF k \in ValidKeys THEN n ELSE 0] : n \in {0, HourLimit - 1}}
  /\ minCount = [k \in Keys |-> 0]
  /\ sent = 0
  /\ req = NoReq
  /\ resp = Base
  /\ prev = [store |-> store, hour |-> hourCount, min |-> minCount]
  /\ origin = <<>>
  /\ touched = {}
  /\ gone = {}
  /\ pg = NoPg
  /\ call = NoCall
  /\ UtilsIdle

Next ==
  \/ List
  \/ GetData
  \/ CreateData
  \/ PutData
  \/ PatchData
  \/ UpdateData
  \/ DeleteData
  \/ BatchCreate
  \/ BatchUpdate
  \/ BatchDelete
  \/ Search

Spec == Init /\ [][Next]_vars

\* ------------------------------------------------- the quota over time
\* Any request of a key is counted the same way; the quota specification sends
\* reads of one resource, as often as the quota admits, and lets time pass.
Probe == \E k \in Keys : DoGet(GetReq(k, 1)) /\ UNCHANGED sent

Elapse(hours) ==
  /\ minCount' = [k \in Keys |-> 0]
  /\ hourCount' = IF hours THEN [k \in Keys |-> 0] ELSE hourCount
  /\ req' = NoReq
  /\ resp' = Base
  /\ prev' = [store |-> store, hour |-> hourCount', min |-> minCount']
  /\ UNCHANGED <<store, nextId, clock, sent, origin, touched, gone, pg, call, utilVars>>

\* A new minute begins: the burst window starts over.
TickMinute == Elapse(FALSE)

\* A new hour begins: both windows start over.
TickHour == Elapse(TRUE)

NextRate ==
  \/ Probe
  \/ TickMinute
  \/ TickHour

SpecRate == Init /\ [][NextRate]_vars

\* ------------------------------------------ the pagination envelope alone
\* GET /data over collections of every size up to MaxTotal: the envelope depends
\* on the collection only through its size.
InitPage ==
  /\ store = <<>>
  /\ nextId = 1
  /\ clock = 0
  /\ hourCount = [k \in Keys |-> 0]
  /\ minCount = [k \in Keys |-> 0]
  /\ sent = 0
  /\ req = NoReq
  /\ resp = Base
  /\ prev = [store |-> store, hour |-> hourCount, min |-> minCount]
  /\ origin = <<>>
  /\ touched = {}
  /\ gone = {}
  /\ call = NoCall
  /\ UtilsIdle
  /\ pg \in [page : 0..MaxPage, limit : {0, 1, 7, DefaultLimit, 50, MaxLimit, MaxLimit + 1, 150},
             total : 0..MaxTotal, status : {0}, env : {NoPage}]

Paginate ==
  /\ pg.status = 0
  /\ \/ pg' = [pg EXCEPT !.status = 200, !.env = Envelope(pg.page, pg.limit, pg.total)]
     \/ /\ pg.limit > MaxLimit
        /\ pg' = [pg EXCEPT !.status = 400]
  /\ UNCHANGED <<store, nextId, clock, hourCount, minCount, sent, req, resp, prev,
                 origin, touched, gone, call, utilVars>>

NextPage == Paginate

SpecPage == InitPage /\ [][NextPage]_vars

\* ------------------------------------------------------- one client call
Methods == {"getData", "createData", "updateData", "deleteData", "batchCreate", "search"}

RetriesOption == 3

ErrorTable ==
  {<<400, "VALIDATION_ERROR">>, <<400, "INVALID_REQUEST">>, <<401, "UNAUTHORIZED">>,
   <<403, "FORBIDDEN">>, <<404, "NOT_FOUND">>, <<409, "CONFLICT">>,
   <<422, "UNPROCESSABLE_ENTITY">>, <<429, "RATE_LIMITED">>, <<500, "INTERNAL_ERROR">>,
   <<502, "BAD_GATEWAY">>, <<503, "SERVICE_UNAVAILABLE">>}

\* The client is called: it sends the request.
Invoke ==
  /\ call.state = "idle"
  /\ \E m \in Methods, n \in {0, RetriesOption} :
       call' = [NoCall EXCEPT !.method = m, !.retries = n, !.attempts = 1,
                              !.state = "waiting"]
  /\ UNCHANGED <<store, nextId, clock, hourCount, minCount, sent, req, resp, prev,
                 origin, touched, gone, pg, utilVars>>

\* A 2xx response is returned to the caller.
OnSuccess(c) == [c EXCEPT !.state = "returned", !.status = 200]

OnErrorRetries(c, e) ==
  IF c.attempts <= c.retries
    THEN [c EXCEPT !.attempts = @ + 1]
    ELSE [c EXCEPT !.state = "thrown", !.status = e[1], !.code = e[2]]

\* A non-2xx response is thrown to the caller as the error of its code.
OnError(c, e) == [c EXCEPT !.state = "thrown", !.status = e[1], !.code = e[2]]

\* No response within the timeout: the request is sent again while retries are
\* left, and the call fails after that.
OnTimeout(c) ==
  IF c.attempts <= c.retries
    THEN [c EXCEPT !.attempts = @ + 1, !.timeouts = @ + 1]
    ELSE [c EXCEPT !.timeouts = @ + 1, !.state = "thrown", !.code = "TIMEOUT"]

Respond ==
  /\ call.state = "waiting"
  /\ \/ call' = OnSuccess(call)
     \/ \E e \in ErrorTable : call' = OnError(call, e)
  /\ UNCHANGED <<store, nextId, clock, hourCount, minCount, sent, req, resp, prev,
                 origin, touched, gone, pg, utilVars>>

TimeOut ==
  /\ call.state = "waiting"
  /\ call' = OnTimeout(call)
  /\ UNCHANGED <<store, nextId, clock, hourCount, minCount, sent, req, resp, prev,
                 origin, touched, gone, pg, utilVars>>

\* The caller has the result; the client keeps nothing of the call.
Finish ==
  /\ call.state \in {"returned", "thrown"}
  /\ call' = NoCall
  /\ UNCHANGED <<store, nextId, clock, hourCount, minCount, sent, req, resp, prev,
                 origin, touched, gone, pg, utilVars>>

NextClient ==
  \/ Invoke
  \/ Respond
  \/ TimeOut
  \/ Finish

SpecClient == Init /\ [][NextClient]_vars

\* ------------------------------------------ calls issued together, Promise.all
Resources == {"users", "products"}

Get(arg) == [method |-> "getData", arg |-> arg]
Analytics == [method |-> "getAnalytics", arg |-> ""]

\* What the server answers to a request when its data is data.
Answer(r, data) ==
  [method |-> r.method, arg |-> r.arg,
   value |-> IF r.method = "getData" THEN data[r.arg]
             ELSE data["users"] + data["products"]]

\* The calls are issued one after the other without awaiting any of them.
IssueAll ==
  /\ flight.calls = <<>>
  /\ flight.results = <<>>
  /\ \E rs \in {<<Get("users"), Get("products"), Analytics>>,
                <<Get("users"), Get("users")>>,
                <<Analytics, Get("products")>>} :
       flight' = [flight EXCEPT
                    !.calls = [i \in 1..Len(rs) |->
                                 [request |-> rs[i], state |-> "sent",
                                  response |-> <<>>, at |-> flight.data, result |-> <<>>]],
                    !.order = <<>>, !.last = <<>>]
  /\ UNCHANGED <<apiVars, deb, vs, tf, gb, memo, lim, rb, eh, ex>>

\* Somebody else changes the data of a resource on the server.
Change ==
  /\ flight.changes < MaxVersion
  /\ \E r \in Resources :
       flight' = [flight EXCEPT !.data[r] = @ + 1, !.changes = @ + 1]
  /\ UNCHANGED <<apiVars, deb, vs, tf, gb, memo, lim, rb, eh, ex>>

\* The server serves one of the requests in flight, in any order.
Serve ==
  /\ \E i \in 1..Len(flight.calls) :
       /\ flight.calls[i].state = "sent"
       /\ LET a == Answer(flight.calls[i].request, flight.data)
          IN flight' = [flight EXCEPT !.calls[i].state = "served",
                                      !.calls[i].response = a,
                                      !.calls[i].at = flight.data,
                                      !.order = Append(@, i),
                                      !.last = a]
  /\ UNCHANGED <<apiVars, deb, vs, tf, gb, memo, lim, rb, eh, ex>>

ResolveLatest(f, i) == f.last

\* What the client hands to the caller of call i: the response to its request.
Resolve(f, i) == f.calls[i].response

\* The promise of one call settles.
Settle ==
  /\ \E i \in 1..Len(flight.calls) :
       /\ flight.calls[i].state = "served"
       /\ flight' = [flight EXCEPT !.calls[i].state = "returned",
                                   !.calls[i].result = Resolve(flight, i)]
  /\ UNCHANGED <<apiVars, deb, vs, tf, gb, memo, lim, rb, eh, ex>>

\* Promise.all resolves with the results in the order of the calls.
Gather ==
  /\ flight.calls # <<>>
  /\ \A i \in 1..Len(flight.calls) : flight.calls[i].state = "returned"
  /\ flight.results = <<>>
  /\ flight' = [flight EXCEPT
                  !.results = [i \in 1..Len(flight.calls) |-> flight.calls[i].result]]
  /\ UNCHANGED <<apiVars, deb, vs, tf, gb, memo, lim, rb, eh, ex>>

InitFlight == ApiIdle /\ UtilsIdle

NextFlight ==
  \/ IssueAll
  \/ Change
  \/ Serve
  \/ Settle
  \/ Gather

SpecFlight == InitFlight /\ [][NextFlight]_vars

\* ------------------------------------------------------ debounce(func, delay)
\* What the user types, one call of the debounced function per prefix.
Queries == <<"a", "ap", "app", "apple">>

ScheduleKeepsTimer(d, arg) ==
  [d EXCEPT !.pending = arg,
            !.timer = IF d.timer = -1 THEN d.now + Delay ELSE d.timer,
            !.calls = Append(@, [arg |-> arg, at |-> d.now])]

\* A call of the debounced function: the arguments are kept and the timer is
\* started over.
Schedule(d, arg) ==
  [d EXCEPT !.pending = arg,
            !.timer = d.now + Delay,
            !.calls = Append(@, [arg |-> arg, at |-> d.now])]

CallDebounced ==
  /\ Len(deb.calls) < MaxCalls
  /\ deb' = Schedule(deb, Queries[(Len(deb.calls) % Len(Queries)) + 1])
  /\ UNCHANGED <<apiVars, flight, vs, tf, gb, memo, lim, rb, eh, ex>>

\* The timer runs out: func is executed with the arguments that were kept.
Fire ==
  /\ deb.timer # -1
  /\ deb.now >= deb.timer
  /\ deb' = [deb EXCEPT !.timer = -1,
                        !.executed = Append(@, [arg |-> deb.pending, at |-> deb.now,
                                                after |-> Len(deb.calls)])]
  /\ UNCHANGED <<apiVars, flight, vs, tf, gb, memo, lim, rb, eh, ex>>

\* Time passes, unless a timer is due.
Wait ==
  /\ deb.now < MaxTime
  /\ deb.timer = -1 \/ deb.now < deb.timer
  /\ deb' = [deb EXCEPT !.now = @ + 100]
  /\ UNCHANGED <<apiVars, flight, vs, tf, gb, memo, lim, rb, eh, ex>>

InitDebounce == ApiIdle /\ UtilsIdle

NextDebounce ==
  \/ CallDebounced
  \/ Fire
  \/ Wait

SpecDebounce == InitDebounce /\ [][NextDebounce]_vars

\* ------------------------------------------------ validateSchema(data, schema)
\* A value of a field: absent, a string (its length matters) or a number.
Absent == [kind |-> "absent", len |-> 0, num |-> 0]
Str(n) == [kind |-> "string", len |-> n, num |-> 0]
Num(n) == [kind |-> "number", len |-> 0, num |-> n]

\* A rule of a schema; a constraint of 0 is one the rule does not set.
Rule(type, required, minLength, maxLength, min, max) ==
  [type |-> type, required |-> required, minLength |-> minLength,
   maxLength |-> maxLength, min |-> min, max |-> max]

\* The schema of the test: a required string of at least one character and a
\* required number.
TestSchema == <<[field |-> "name", rule |-> Rule("string", TRUE, 1, 0, 0, 0)],
                [field |-> "age", rule |-> Rule("number", TRUE, 0, 0, 0, 0)]>>

\* The documented user schema, its string and number fields.
UserSchema == <<[field |-> "name", rule |-> Rule("string", TRUE, 3, 20, 0, 0)],
                [field |-> "age", rule |-> Rule("number", FALSE, 0, 0, 13, 120)]>>

RuleOrder == <<"required", "type", "minLength", "maxLength", "min", "max">>

\* The rules a value breaks. An optional field that is absent breaks none.
Broken(v, rule) ==
  IF v.kind = "absent" THEN (IF rule.required THEN {"required"} ELSE {})
  ELSE IF v.kind # rule.type THEN {"type"}
  ELSE (IF rule.minLength > 0 /\ v.kind = "string" /\ v.len < rule.minLength
          THEN {"minLength"} ELSE {})
       \cup (IF rule.maxLength > 0 /\ v.kind = "string" /\ v.len > rule.maxLength
               THEN {"maxLength"} ELSE {})
       \cup (IF rule.min > 0 /\ v.kind = "number" /\ v.num < rule.min
               THEN {"min"} ELSE {})
       \cup (IF rule.max > 0 /\ v.kind = "number" /\ v.num > rule.max
               THEN {"max"} ELSE {})

FieldErrorsNoLengths(field, v, rule) ==
  LET broken == SelectSeq(RuleOrder, LAMBDA r : r \in Broken(v, rule) \ {"minLength", "maxLength"})
  IN IF broken = <<>> THEN <<>> ELSE <<[field |-> field, rule |-> broken[1]]>>

\* The error of a field: the first rule it breaks, if any.
FieldErrors(field, v, rule) ==
  LET broken == SelectSeq(RuleOrder, LAMBDA r : r \in Broken(v, rule))
  IN IF broken = <<>> THEN <<>> ELSE <<[field |-> field, rule |-> broken[1]]>>

RECURSIVE Collect(_, _, _)
Collect(data, schema, n) ==
  IF n = 0 THEN <<>>
  ELSE Collect(data, schema, n - 1)
         \o FieldErrors(schema[n].field, data[schema[n].field], schema[n].rule)

validateSchema(data, schema) ==
  LET errors == Collect(data, schema, Len(schema))
  IN [isValid |-> errors = <<>>, errors |-> errors, warnings |-> <<>>]

Values == {Absent, Str(0), Str(2), Str(4), Str(7), Str(25), Num(5), Num(25), Num(130)}

InitValidate ==
  /\ ApiIdle
  /\ flight = NoFlight /\ deb = NoDeb /\ tf = NoTf /\ gb = NoGb
  /\ memo = NoMemo /\ lim = NoLim /\ rb = NoRb
  /\ eh = NoEh /\ ex = NoEx
  /\ \E name \in Values, age \in Values, schema \in {TestSchema, UserSchema} :
       vs = [NoVs EXCEPT !.data = [f \in {"name", "age"} |-> IF f = "name" THEN name ELSE age],
                         !.schema = schema]

Validate ==
  /\ ~vs.done
  /\ vs' = [vs EXCEPT !.done = TRUE, !.result = validateSchema(vs.data, vs.schema)]
  /\ UNCHANGED <<apiVars, flight, deb, tf, gb, memo, lim, rb, eh, ex>>

NextValidate == Validate

SpecValidate == InitValidate /\ [][NextValidate]_vars

\* -------------------------------------- transformData(data, transformations)
\* The example's object: a name, the computed slug and timestamp, and a price
\* that the last transformation drops.
Raw(name) == [name |-> name, slug |-> "none", timestamp |-> FALSE, price |-> TRUE]

\* name.trim().toLowerCase()
Normal(name) ==
  CASE name \in {"Product Name", " Product Name ", "product name"} -> "product name"
    [] OTHER -> ""

\* name.replace(/\s+/g, '-')
Slug(name) ==
  CASE name = "Product Name" -> "Product-Name"
    [] name = " Product Name " -> "-Product-Name-"
    [] name = "product name" -> "product-name"
    [] OTHER -> ""

\* The three transformations of the example; each returns a new object.
Apply(t, d) ==
  CASE t = "normalize" -> [d EXCEPT !.name = Normal(d.name)]
    [] t = "compute" -> [d EXCEPT !.slug = Slug(d.name), !.timestamp = TRUE]
    [] t = "clean" -> [d EXCEPT !.price = FALSE]

\* The inputs the first n transformations receive, and the output of the n-th.
RECURSIVE PipeBackwards(_, _, _)
PipeBackwards(data, ts, n) ==
  IF n = 0 THEN [seen |-> <<>>, out |-> data]
  ELSE LET rest == PipeBackwards(data, ts, n - 1)
           t == ts[Len(ts) - n + 1]
       IN [seen |-> Append(rest.seen, rest.out), out |-> Apply(t, rest.out)]

RECURSIVE Pipe(_, _, _)
Pipe(data, ts, n) ==
  IF n = 0 THEN [seen |-> <<>>, out |-> data]
  ELSE LET rest == Pipe(data, ts, n - 1)
       IN [seen |-> Append(rest.seen, rest.out), out |-> Apply(ts[n], rest.out)]

transformData(data, ts) == Pipe(data, ts, Len(ts))

Pipelines == UNION {[1..n -> {"normalize", "compute", "clean"}] : n \in 0..MaxPipe}

InitTransform ==
  /\ ApiIdle
  /\ flight = NoFlight /\ deb = NoDeb /\ vs = NoVs /\ gb = NoGb
  /\ memo = NoMemo /\ lim = NoLim /\ rb = NoRb
  /\ eh = NoEh /\ ex = NoEx
  /\ \E name \in {"Product Name", " Product Name ", "product name", ""}, ts \in Pipelines :
       tf = [NoTf EXCEPT !.data = Raw(name), !.before = Raw(name), !.transformations = ts]

Transform ==
  /\ ~tf.done
  /\ LET r == transformData(tf.data, tf.transformations)
     IN tf' = [tf EXCEPT !.done = TRUE, !.seen = r.seen, !.result = r.out]
  /\ UNCHANGED <<apiVars, flight, deb, vs, gb, memo, lim, rb, eh, ex>>

NextTransform == Transform

SpecTransform == InitTransform /\ [][NextTransform]_vars

\* --------------------------------------------------- groupBy(array, keyOrFunc)
Product(name, category, price) == [name |-> name, category |-> category, price |-> price]

Products == {Product("Item 1", "electronics", 100), Product("Item 2", "books", 20),
             Product("Item 4", "books", 15), Product("Item 5", "clothing", 50)}

\* The group an item belongs to: its key field, or what the function returns.
KeyOf(item, keyOrFunc) ==
  IF keyOrFunc = "category" THEN item.category
  ELSE IF item.price < 50 THEN "low"
  ELSE IF item.price < 100 THEN "medium"
  ELSE "high"

PutOverwrites(groups, k, item) ==
  [j \in DOMAIN groups \cup {k} |-> IF j = k THEN <<item>> ELSE groups[j]]

\* The item is added at the end of its group, which is created when it is new.
Put(groups, k, item) ==
  [j \in DOMAIN groups \cup {k} |->
     IF j = k THEN (IF k \in DOMAIN groups THEN Append(groups[k], item) ELSE <<item>>)
     ELSE groups[j]]

RECURSIVE GroupFirst(_, _, _)
GroupFirst(array, keyOrFunc, n) ==
  IF n = 0 THEN <<>>
  ELSE Put(GroupFirst(array, keyOrFunc, n - 1), KeyOf(array[n], keyOrFunc), array[n])

groupBy(array, keyOrFunc) == GroupFirst(array, keyOrFunc, Len(array))

InitGroup ==
  /\ ApiIdle
  /\ flight = NoFlight /\ deb = NoDeb /\ vs = NoVs /\ tf = NoTf
  /\ memo = NoMemo /\ lim = NoLim /\ rb = NoRb
  /\ eh = NoEh /\ ex = NoEx
  /\ \E n \in 0..MaxItems, k \in {"category", "priceRange"} :
       \E array \in [1..n -> Products] :
         gb = [NoGb EXCEPT !.array = array, !.keyOrFunc = k]

Group ==
  /\ ~gb.done
  /\ gb' = [gb EXCEPT !.done = TRUE, !.result = groupBy(gb.array, gb.keyOrFunc)]
  /\ UNCHANGED <<apiVars, flight, deb, vs, tf, memo, lim, rb, eh, ex>>

NextGroup == Group

SpecGroup == InitGroup /\ [][NextGroup]_vars

\* -------------------------------------------------------------- memoize(func)
\* func is not a function of its argument alone (the example's sums random
\* numbers): every computation gives a value of its own.
Compute(arg, nth) == <<arg, nth>>

RecallAlwaysComputes(m, arg) ==
  LET value == Compute(arg, m.computations + 1)
  IN [m EXCEPT !.cache = [k \in DOMAIN m.cache \cup {arg} |->
                            IF k = arg THEN value ELSE m.cache[k]],
               !.computations = @ + 1,
               !.log = Append(@, [arg |-> arg, clears |-> m.clears,
                                  computed |-> TRUE, result |-> value])]

\* A call of the memoized function: the cached result when the key is in the
\* cache, otherwise func is called and its result is cached.
Recall(m, arg) ==
  IF arg \in DOMAIN m.cache
    THEN [m EXCEPT !.log = Append(@, [arg |-> arg, clears |-> m.clears,
                                      computed |-> FALSE, result |-> m.cache[arg]])]
    ELSE LET value == Compute(arg, m.computations + 1)
         IN [m EXCEPT !.cache = [k \in DOMAIN m.cache \cup {arg} |->
                                   IF k = arg THEN value ELSE m.cache[k]],
                      !.computations = @ + 1,
                      !.log = Append(@, [arg |-> arg, clears |-> m.clears,
                                         computed |-> TRUE, result |-> value])]

CallMemoized ==
  /\ Len(memo.log) + memo.clears < MaxMemo
  /\ \E arg \in {1, 2, 100} : memo' = Recall(memo, arg)
  /\ UNCHANGED <<apiVars, flight, deb, vs, tf, gb, lim, rb, eh, ex>>

\* memoized.cache.clear()
ClearCache ==
  /\ Len(memo.log) + memo.clears < MaxMemo
  /\ memo' = [memo EXCEPT !.cache = <<>>, !.clears = @ + 1]
  /\ UNCHANGED <<apiVars, flight, deb, vs, tf, gb, lim, rb, eh, ex>>

InitMemo == ApiIdle /\ UtilsIdle

NextMemo ==
  \/ CallMemoized
  \/ ClearCache

SpecMemo == InitMemo /\ [][NextMemo]_vars

\* ------------------------------------------ createRateLimiter(requestsPerSecond)
\* const interval = 1000 / requestsPerSecond; let lastRequestTime = 0;
createRateLimiter(requestsPerSecond, now) ==
  [requestsPerSecond |-> requestsPerSecond, interval |-> 1000 \div requestsPerSecond,
   lastRequestTime |-> 0, now |-> now, ops |-> <<>>]

\* lastRequestTime = Date.now(); return fn();
Started(l, i) ==
  [l EXCEPT !.lastRequestTime = l.now,
            !.ops[i] = [pc |-> "started", wake |-> l.ops[i].wake, at |-> l.now]]

\* The limiter is called with an operation. It runs up to its first await: it
\* reads the clock and lastRequestTime, and either sets a timer for the rest of
\* the interval or starts the operation at once.
CallLimiter ==
  /\ lim.interval > 0
  /\ Len(lim.ops) < MaxOps
  /\ LET i == Len(lim.ops) + 1
         timeSinceLastRequest == lim.now - lim.lastRequestTime
         called == [lim EXCEPT !.ops = Append(@, [pc |-> "called", wake |-> 0, at |-> 0])]
     IN lim' = IF timeSinceLastRequest < lim.interval
                 THEN [called EXCEPT !.ops[i].pc = "waiting",
                                     !.ops[i].wake = lim.now + (lim.interval - timeSinceLastRequest)]
                 ELSE Started(called, i)
  /\ UNCHANGED <<apiVars, flight, deb, vs, tf, gb, memo, rb, eh, ex>>

\* The timer of a waiting call runs out: the call goes on after its await.
Resume ==
  /\ \E i \in 1..Len(lim.ops) :
       /\ lim.ops[i].pc = "waiting"
       /\ lim.now >= lim.ops[i].wake
       /\ lim' = Started(lim, i)
  /\ UNCHANGED <<apiVars, flight, deb, vs, tf, gb, memo, rb, eh, ex>>

\* Time passes, unless a timer is due.
Pass ==
  /\ lim.interval > 0
  /\ lim.now < MaxClock
  /\ \A i \in 1..Len(lim.ops) : lim.ops[i].pc = "waiting" => lim.now < lim.ops[i].wake
  /\ lim' = [lim EXCEPT !.now = @ + 250]
  /\ UNCHANGED <<apiVars, flight, deb, vs, tf, gb, memo, rb, eh, ex>>

\* Date.now() is far from 0 when the limiter is created.
InitLimiter ==
  /\ ApiIdle
  /\ flight = NoFlight /\ deb = NoDeb /\ vs = NoVs /\ tf = NoTf
  /\ gb = NoGb /\ memo = NoMemo /\ rb = NoRb
  /\ eh = NoEh /\ ex = NoEx
  /\ \E requestsPerSecond \in {1, 2, 4} : lim = createRateLimiter(requestsPerSecond, 1000)

NextLimiter ==
  \/ CallLimiter
  \/ Resume
  \/ Pass

SpecLimiter == InitLimiter /\ [][NextLimiter]_vars

\* ------------------------------- retryWithBackoff(fn, maxRetries, baseDelay)
RECURSIVE Pow2(_)
Pow2(n) == IF n = 0 THEN 1 ELSE 2 * Pow2(n - 1)

\* for (...; attempt <= maxRetries; ...) { try { return await fn(); ...
\* The loop test, and the call of fn when it passes; past the loop the function
\* returns nothing.
Attempt(r) ==
  IF r.attempt <= r.maxRetries
    THEN [r EXCEPT !.pc = "calling", !.calls = @ + 1, !.running = @ + 1]
    ELSE [r EXCEPT !.pc = "resolved", !.outcome = <<"undefined">>]

FulfilledGoesOn(r, value) ==
  Attempt([r EXCEPT !.running = @ - 1,
                    !.log = Append(@, <<"value", value>>),
                    !.attempt = @ + 1])

\* return await fn(), fn's promise fulfilled.
Fulfilled(r, value) ==
  [r EXCEPT !.pc = "resolved", !.running = @ - 1,
            !.log = Append(@, <<"value", value>>),
            !.outcome = <<"value", value>>]

CaughtWaitsFirst(r, error) ==
  [r EXCEPT !.pc = "sleeping", !.running = @ - 1,
            !.log = Append(@, <<"error", error>>),
            !.waits = Append(@, r.baseDelay * Pow2(r.attempt - 1))]

CaughtLinearBackoff(r, error) ==
  IF r.attempt = r.maxRetries
    THEN [r EXCEPT !.pc = "rejected", !.running = @ - 1,
                   !.log = Append(@, <<"error", error>>),
                   !.outcome = <<"error", error>>]
    ELSE [r EXCEPT !.pc = "sleeping", !.running = @ - 1,
                   !.log = Append(@, <<"error", error>>),
                   !.waits = Append(@, r.baseDelay * r.attempt)]

\* catch (error): the last attempt's error is thrown; after any other attempt
\* the function waits baseDelay * 2^(attempt - 1) milliseconds.
Caught(r, error) ==
  IF r.attempt = r.maxRetries
    THEN [r EXCEPT !.pc = "rejected", !.running = @ - 1,
                   !.log = Append(@, <<"error", error>>),
                   !.outcome = <<"error", error>>]
    ELSE [r EXCEPT !.pc = "sleeping", !.running = @ - 1,
                   !.log = Append(@, <<"error", error>>),
                   !.waits = Append(@, r.baseDelay * Pow2(r.attempt - 1))]

\* retryWithBackoff is called: attempt = 1 and the loop is entered.
CallRetry ==
  /\ rb.pc = "idle"
  /\ \E maxRetries \in 0..MaxRetries, baseDelay \in {500, 1000} :
       rb' = Attempt([NoRb EXCEPT !.maxRetries = maxRetries, !.baseDelay = baseDelay,
                                  !.attempt = 1])
  /\ UNCHANGED <<apiVars, flight, deb, vs, tf, gb, memo, lim, eh, ex>>

\* fn succeeds.
Succeed ==
  /\ rb.pc = "calling"
  /\ \E value \in {"Success!", "Done"} : rb' = Fulfilled(rb, <<value, rb.attempt>>)
  /\ UNCHANGED <<apiVars, flight, deb, vs, tf, gb, memo, lim, eh, ex>>

\* fn fails.
FailOnce ==
  /\ rb.pc = "calling"
  /\ \E error \in {"Random failure", "Timeout"} : rb' = Caught(rb, <<error, rb.attempt>>)
  /\ UNCHANGED <<apiVars, flight, deb, vs, tf, gb, memo, lim, eh, ex>>

\* The wait is over: attempt++ and the loop goes round.
Retry ==
  /\ rb.pc = "sleeping"
  /\ rb' = Attempt([rb EXCEPT !.attempt = @ + 1])
  /\ UNCHANGED <<apiVars, flight, deb, vs, tf, gb, memo, lim, eh, ex>>

InitRetry == ApiIdle /\ UtilsIdle

NextRetry ==
  \/ CallRetry
  \/ Succeed
  \/ FailOnce
  \/ Retry

SpecRetry == InitRetry /\ [][NextRetry]_vars

\* ------------------------------------------------------ withErrorHandling(fn)
\* JavaScript values are tuples of strings: <<"null">>, <<"undefined">>,
\* <<"number", "123">>, <<"string", "abc">>, <<"Error", message>> and the
\* object { id, data } as <<"object">> \o id \o <<data>>.
Null == <<"null">>
Undefined == <<"undefined">>
JsError(message) == <<"Error", message>>

\* !id
Falsy(v) == v \in {Null, Undefined, <<"number", "0">>, <<"string", "">>}

\* async (id) => { if (!id) throw new JsError('ID is required');
\*                 return { id, data: 'mock data' }; }
\* The arrow function is passed in place, so its name is the empty string.
MockLookup == [name |-> "", body |-> <<"lookup">>]

\* Other functions to wrap: they return a value, or throw or reject with one.
Returning(name, v) == [name |-> name, body |-> <<"return">> \o v]
Throwing(name, v) == [name |-> name, body |-> <<"throw">> \o v]

Fns ==
  {MockLookup, Returning("getUser", <<"string", "ok">>), Returning("getNothing", Null)}
    \cup {Throwing("failing", v) :
            v \in {JsError("Random failure"), <<"string", "failed">>, Null, Undefined}}

CallIds == {<<"number", "123">>, <<"number", "0">>, Null, <<"string", "abc">>}

\* await fn(...args): how fn's promise settles, <<"value", v>> or <<"error", e>>.
Settled(fn, id) ==
  CASE fn.body[1] = "lookup" ->
         IF Falsy(id) THEN <<"error", JsError("ID is required")>>
                      ELSE <<"value", <<"object">> \o id \o <<"mock data">>>>
    [] fn.body[1] = "return" -> <<"value", Tail(fn.body)>>
    [] OTHER -> <<"error", Tail(fn.body)>>

\* error.message: a property read throws a TypeError on null and undefined;
\* an Error has a message, any other value has none.
MessageOf(error) ==
  CASE error \in {Null, Undefined} ->
         <<"error", <<"TypeError", "Cannot read properties of " \o error[1]>>>>
    [] error[1] \in {"Error", "TypeError"} -> <<"value", <<"string", error[2]>>>>
    [] OTHER -> <<"value", Undefined>>

\* withErrorHandling(fn): the wrapper, not yet called.
withErrorHandling(fn) == [NoEh EXCEPT !.fn = fn, !.pc = "ready"]

\* return await fn(...args), fn's promise fulfilled.
Returned(w, value) ==
  [w EXCEPT !.pc = "resolved", !.outcome = <<"value", value>>,
            !.settled = Append(@, <<w.args, <<"value", value>>, <<"value", value>>>>)]

\* catch (error) { console.error(`Error in ${fn.name}:`, error.message);
\*                 return null; }
\* An exception raised while the arguments of console.error are evaluated
\* leaves the catch block: the wrapper's promise is rejected with it.
Handled(w, error) ==
  LET message == MessageOf(error)
      outcome == IF message[1] = "error" THEN message ELSE <<"value", Null>>
  IN [w EXCEPT !.pc = IF message[1] = "error" THEN "rejected" ELSE "resolved",
               !.console = IF message[1] = "error" THEN @
                           ELSE Append(@, <<"Error in " \o w.fn.name \o ":", message[2]>>),
               !.outcome = outcome,
               !.settled = Append(@, <<w.args, <<"error", error>>, outcome>>)]

\* The wrapper is called and calls fn with its arguments.
CallWrapped ==
  /\ eh.pc \in {"ready", "resolved", "rejected"}
  /\ Len(eh.settled) < MaxWrapped
  /\ \E id \in CallIds : eh' = [eh EXCEPT !.pc = "awaiting", !.args = id, !.outcome = <<>>]
  /\ UNCHANGED <<apiVars, flight, deb, vs, tf, gb, memo, lim, rb, ex>>

\* fn's promise is fulfilled.
FnFulfilled ==
  /\ eh.pc = "awaiting"
  /\ Settled(eh.fn, eh.args)[1] = "value"
  /\ eh' = Returned(eh, Settled(eh.fn, eh.args)[2])
  /\ UNCHANGED <<apiVars, flight, deb, vs, tf, gb, memo, lim, rb, ex>>

\* fn throws, or its promise is rejected.
FnRejected ==
  /\ eh.pc = "awaiting"
  /\ Settled(eh.fn, eh.args)[1] = "error"
  /\ eh' = Handled(eh, Settled(eh.fn, eh.args)[2])
  /\ UNCHANGED <<apiVars, flight, deb, vs, tf, gb, memo, lim, rb, ex>>

InitHandling ==
  /\ ApiIdle
  /\ flight = NoFlight /\ deb = NoDeb /\ vs = NoVs /\ tf = NoTf
  /\ gb = NoGb /\ memo = NoMemo /\ lim = NoLim /\ rb = NoRb /\ ex = NoEx
  /\ \E fn \in Fns : eh = withErrorHandling(fn)

NextHandling ==
  \/ CallWrapped
  \/ FnFulfilled
  \/ FnRejected

SpecHandling == InitHandling /\ [][NextHandling]_vars

\* -------------------------------------------------------- apiClientExamples()
\* What a call of the client throws: an HTTP error carries a response, a
\* network failure does not.
Thrown ==
  {[name |-> "ValidationError", status |-> 400],
   [name |-> "RateLimitError", status |-> 429],
   [name |-> "NetworkError", status |-> 0]}

\* The ids in s, in ascending order.
RECURSIVE Listed(_)
Listed(s) ==
  IF s = {} THEN <<>>
  ELSE LET least == CHOOSE i \in s : \A j \in s : i <= j
       IN <<least>> \o Listed(s \ {least})

\* The function is entered: the client is built and getData({page: 1, ...})
\* is awaited.
Enter(items) ==
  [NoEx EXCEPT !.pc = "1.1", !.items = items,
               !.nextId = 1 + Cardinality(items)]

\* 1.1 dataResponse arrives; 1.2 is skipped when it holds no item.
Fetched(e) ==
  [e EXCEPT !.dataResponse = Listed(e.items),
            !.pc = IF Len(Listed(e.items)) > 0 THEN "1.2" ELSE "1.3",
            !.console = Append(@, "Fetched")]

\* 1.3 createdItem = await client.createData(newItem)
ItemCreated(e) ==
  [e EXCEPT !.createdItem = e.nextId, !.items = @ \cup {e.nextId},
            !.nextId = @ + 1, !.pc = "1.4", !.console = Append(@, "Created")]

\* 1.5 batchCreate of three items, of which the server creates some.
BatchCreated(e, created) ==
  [e EXCEPT !.items = @ \cup (e.nextId .. (e.nextId + created - 1)),
            !.nextId = @ + created, !.pc = "1.6",
            !.console = Append(@, "Batch created")]

\* 1.7 await client.deleteData(createdItem.id)
Deleted(e) ==
  [e EXCEPT !.items = @ \ {e.createdItem}, !.deleted = @ \cup {e.createdItem},
            !.pc = "returned", !.console = Append(@, "Cleanup completed")]

\* catch (error): the error is logged, with its response when it has one, and
\* the function returns. Nothing else runs: there is no finally block.
CaughtApiError(e, error) ==
  [e EXCEPT !.thrown = error, !.pc = "returned",
            !.console = IF error.status # 0
                          THEN @ \o <<"API Error", "Response status", "Response data">>
                          ELSE Append(@, "API Error")]

FetchData ==
  /\ ex.pc = "1.1"
  /\ ex' = Fetched(ex)
  /\ UNCHANGED <<apiVars, flight, deb, vs, tf, gb, memo, lim, rb, eh>>

FetchItem ==
  /\ ex.pc = "1.2"
  /\ ex' = [ex EXCEPT !.pc = "1.3", !.console = Append(@, "Item details")]
  /\ UNCHANGED <<apiVars, flight, deb, vs, tf, gb, memo, lim, rb, eh>>

CreateItem ==
  /\ ex.pc = "1.3"
  /\ ex' = ItemCreated(ex)
  /\ UNCHANGED <<apiVars, flight, deb, vs, tf, gb, memo, lim, rb, eh>>

UpdateItem ==
  /\ ex.pc = "1.4"
  /\ ex' = [ex EXCEPT !.pc = "1.5", !.console = Append(@, "Updated")]
  /\ UNCHANGED <<apiVars, flight, deb, vs, tf, gb, memo, lim, rb, eh>>

BatchCreateItems ==
  /\ ex.pc = "1.5"
  /\ \E created \in 0..3 : ex' = BatchCreated(ex, created)
  /\ UNCHANGED <<apiVars, flight, deb, vs, tf, gb, memo, lim, rb, eh>>

SearchItems ==
  /\ ex.pc = "1.6"
  /\ ex' = [ex EXCEPT !.pc = "1.7", !.console = Append(@, "Search found")]
  /\ UNCHANGED <<apiVars, flight, deb, vs, tf, gb, memo, lim, rb, eh>>

CleanUp ==
  /\ ex.pc = "1.7"
  /\ ex' = Deleted(ex)
  /\ UNCHANGED <<apiVars, flight, deb, vs, tf, gb, memo, lim, rb, eh>>

\* The client call being awaited throws.
ClientThrows ==
  /\ ex.pc \in {"1.1", "1.2", "1.3", "1.4", "1.5", "1.6", "1.7"}
  /\ \E error \in Thrown : ex' = CaughtApiError(ex, error)
  /\ UNCHANGED <<apiVars, flight, deb, vs, tf, gb, memo, lim, rb, eh>>

InitExamples ==
  /\ ApiIdle
  /\ flight = NoFlight /\ deb = NoDeb /\ vs = NoVs /\ tf = NoTf
  /\ gb = NoGb /\ memo = NoMemo /\ lim = NoLim /\ rb = NoRb /\ eh = NoEh
  /\ \E n \in 0..MaxExisting : ex = Enter(1..n)

NextExamples ==
  \/ FetchData
  \/ FetchItem
  \/ CreateItem
  \/ UpdateItem
  \/ BatchCreateItems
  \/ SearchItems
  \/ CleanUp
  \/ ClientThrows

SpecExamples == InitExamples /\ [][NextExamples]_vars

\* ===================================================================== claims
\* The request in req reached a handler: its key is valid and the key's quota
\* was not used up when it arrived.
Admitted ==
  /\ req.op # "none"
  /\ req.key \in ValidKeys
  /\ prev.hour[req.key] < HourLimit
  /\ prev.min[req.key] < BurstLimit

\* The value of field f in a record or payload, without what the server adds.
FieldOf(x, f) ==
  CASE f = "name" -> x.name
    [] f = "description" -> x.description
    [] f = "status" -> x.status
    [] f = "tags" -> x.tags
    [] f = "metadata" -> x.metadata \ ServerMeta

\* The record carries every field the payload supplies, with the payload's value.
Carries(rec, p) == \A f \in p.has : f \in rec.has /\ FieldOf(rec, f) = FieldOf(p, f)

\* The fields of a payload that the documented rules reject.
Rejected(p, required) ==
  {f \in {"name"} : required /\ "name" \notin p.has}
    \cup {f \in {"status"} : "status" \in p.has /\ p.status \notin {"active", "inactive"}}

NoRepeats(seq) == \A i, j \in 1..Len(seq) : seq[i] = seq[j] => i = j

Unlisted(ids) == \A id \in DOMAIN prev.store \ ids :
                   id \in DOMAIN store /\ store[id] = prev.store[id]

\* ----------------------------------------------------------------------- C1
\* C1: a resource that was created and has not been updated or deleted since is
\* returned by get with every field of its create payload, its assigned id, and
\* created_at and updated_at set by the server, whatever else was done meanwhile;
\* the id in the create response is the id under which it is found.
C1_RoundTrip ==
  /\ \A id \in DOMAIN origin \ touched :
       LET got == Lookup(id)
       IN /\ got.status = 200
          /\ Len(got.data) = 1
          /\ Carries(got.data[1], origin[id])
          /\ got.data[1].id = id
          /\ got.data[1].created_at \in 1..clock
          /\ got.data[1].updated_at = got.data[1].created_at
  /\ (req.op = "create" /\ resp.status = 201) =>
       /\ Len(resp.data) = 1
       /\ resp.data[1].id \in DOMAIN origin
       /\ origin[resp.data[1].id] = req.payload
       /\ Lookup(resp.data[1].id).data = resp.data
  /\ (req.op = "get" /\ Admitted /\ req.id \in DOMAIN origin \ touched) =>
       /\ resp.status = 200
       /\ Carries(resp.data[1], origin[req.id])

\* A get of the fully populated resource succeeds after another resource of the
\* same batch was deleted.
C1_Witness ==
  /\ req.op = "get"
  /\ resp.status = 200
  /\ req.id \in DOMAIN origin \ touched
  /\ origin[req.id] = PFull
  /\ gone # {}

ValidCreates == {i \in 1..Len(req.items) : Rejected(req.items[i].payload, TRUE) = {}}

ValidUpdates == {i \in 1..Len(req.items) :
                   /\ req.items[i].id \in DOMAIN prev.store
                   /\ Rejected(req.items[i].payload, FALSE) = {}}

\* C4: a batch request that reaches its handler is answered 200 whatever its
\* members are; every valid member is applied and counted, every other member
\* is counted as failed with one error entry, and a failed member undoes nothing.
C4_BatchNotAtomic ==
  /\ (req.op \in {"batchCreate", "batchUpdate", "batchDelete"} /\ Admitted) =>
       /\ resp.status = 200
       /\ resp.code = ""
       /\ Len(resp.errors) = resp.summary.failed
  /\ (req.op = "batchCreate" /\ Admitted) =>
       /\ resp.summary.done = Cardinality(ValidCreates)
       /\ resp.summary.done + resp.summary.failed = Len(req.items)
       /\ {resp.errors[i].id : i \in 1..Len(resp.errors)} = (1..Len(req.items)) \ ValidCreates
       /\ Len(resp.data) = Cardinality(ValidCreates)
       /\ NoRepeats([j \in 1..Len(resp.data) |-> resp.data[j].id])
       /\ \A j \in 1..Len(resp.data) :
            /\ resp.data[j].id \in DOMAIN store \ DOMAIN prev.store
            /\ store[resp.data[j].id] = resp.data[j]
       /\ \A i \in ValidCreates :
            \E j \in 1..Len(resp.data) : Project(resp.data[j]) = req.items[i].payload
       /\ Unlisted({})
  /\ (req.op = "batchUpdate" /\ Admitted) =>
       /\ resp.summary.done = Cardinality(ValidUpdates)
       /\ resp.summary.done + resp.summary.failed = Len(req.items)
       /\ \A i \in ValidUpdates : \A f \in req.items[i].payload.has :
            (\A j \in ValidUpdates :
               (j > i /\ req.items[j].id = req.items[i].id) => f \notin req.items[j].payload.has)
            => FieldOf(store[req.items[i].id], f) = FieldOf(req.items[i].payload, f)
       /\ Unlisted({req.items[i].id : i \in ValidUpdates})
       /\ DOMAIN store = DOMAIN prev.store
  /\ (req.op = "batchDelete" /\ Admitted) =>
       /\ \A id \in Range(req.ids) : id \notin DOMAIN store
       /\ resp.summary.done = Cardinality(Range(req.ids) \cap DOMAIN prev.store)

\* A batch create in which one member failed and the other was created.
C4_Witness ==
  /\ req.op = "batchCreate"
  /\ resp.status = 200
  /\ resp.summary = [done |-> 1, failed |-> 1]
  /\ Cardinality(DOMAIN store) = Cardinality(DOMAIN prev.store) + 1

\* ----------------------------------------------------------------------- C8
\* C8: a create that reaches its handler with an invalid payload is answered
\* 400 VALIDATION_ERROR with one {field, message} entry per invalid field, and
\* the collection is as it was before the call.
C8_InvalidCreate ==
  (req.op = "create" /\ Admitted /\ Rejected(req.payload, TRUE) # {}) =>
    /\ resp.status = 400
    /\ resp.code = "VALIDATION_ERROR"
    /\ Len(resp.details) = Cardinality(Rejected(req.payload, TRUE))
    /\ {resp.details[i].field : i \in 1..Len(resp.details)} = Rejected(req.payload, TRUE)
    /\ \A i \in 1..Len(resp.details) : resp.details[i].message # ""
    /\ resp.data = <<>>
    /\ store = prev.store

\* A create with two invalid fields is refused while a resource is stored.
C8_Witness ==
  /\ req.op = "create"
  /\ Admitted
  /\ Rejected(req.payload, TRUE) = {"name", "status"}
  /\ Len(resp.details) = 2
  /\ store # <<>>

\* ----------------------------------------------------------------------- C9
\* C9: a request of any operation without a key or with an invalid key is
\* answered 401 UNAUTHORIZED, carries no data and leaves the collection and the
\* quota counters as they were.
C9_Unauthenticated ==
  (req.op # "none" /\ req.key \notin ValidKeys) =>
    /\ resp.status = 401
    /\ resp.code = "UNAUTHORIZED"
    /\ resp.data = <<>>
    /\ resp.total = 0
    /\ resp.summary = [done |-> 0, failed |-> 0]
    /\ store = prev.store
    /\ hourCount = prev.hour

\* A list request with an invalid key is refused while resources are stored.
C9_Witness ==
  /\ req.op = "list"
  /\ req.key = "bad-key"
  /\ resp.status = 401
  /\ store # <<>>

\* ---------------------------------------------------------------------- C10
Kept == /\ req.id \in DOMAIN store
        /\ store[req.id].id = prev.store[req.id].id
        /\ store[req.id].created_at = prev.store[req.id].created_at
        /\ DOMAIN store = DOMAIN prev.store
        /\ Unlisted({req.id})

WhollyReplaced == Project(store[req.id]) = req.payload

OnlyGivenFieldsChanged ==
  \A f \in FieldSet :
    IF f \in req.payload.has
      THEN f \in store[req.id].has /\ FieldOf(store[req.id], f) = FieldOf(req.payload, f)
      ELSE /\ FieldOf(store[req.id], f) = FieldOf(prev.store[req.id], f)
           /\ (f \in store[req.id].has <=> f \in prev.store[req.id].has)

\* C10: a PUT replaces the whole record with the payload; a PATCH, which is also
\* what the client's updateData sends for its partial object, changes only the
\* fields the payload carries and leaves the others as they were; both keep id
\* and created_at and change no other record.
C10_UpdateAndPatch ==
  /\ (req.op = "update" /\ resp.status = 200) => WhollyReplaced /\ Kept
  /\ (req.op = "patch" /\ resp.status = 200) => OnlyGivenFieldsChanged /\ Kept

\* updateData with a payload of description and status on a resource that has a
\* name and tags, while another resource is stored.
C10_Witness ==
  /\ req.method = "updateData"
  /\ resp.status = 200
  /\ req.payload = PPatch
  /\ store[req.id].name = "New Item"
  /\ store[req.id].tags # {}
  /\ Cardinality(DOMAIN store) > 1

\* ----------------------------------------------------------------------- C5
RequestedPage == IF pg.page = 0 THEN DefaultPage ELSE pg.page
RequestedLimit == IF pg.limit = 0 THEN DefaultLimit ELSE pg.limit

\* n is the number of pages of per items that total items fill: the least n
\* with n * per >= total.
IsCeiling(n, total, per) == n * per >= total /\ (n = 0 \/ (n - 1) * per < total)

Derived ==
  /\ pg.env.total = pg.total
  /\ IsCeiling(pg.env.total_pages, pg.env.total, pg.env.per_page)
  /\ pg.env.has_next <=> pg.env.current_page < pg.env.total_pages
  /\ pg.env.has_prev <=> pg.env.current_page > 1
  /\ pg.env.current_page = RequestedPage

Served == resp.status \notin {401, 429}
Limited == resp.status = 429 /\ resp.code = "RATE_LIMITED"
WithKey == req.op # "none" /\ req.key \in ValidKeys

\* C6 as stated: a request is served whenever fewer than 1000 requests were
\* made in the hour, and Remaining counts down by one from the limit; after
\* 1000 requests every request is refused with Remaining 0.
C6_AsStated ==
  WithKey =>
    /\ prev.hour[req.key] < 1000 =>
         Served /\ resp.remaining = 1000 - prev.hour[req.key] - 1
    /\ prev.hour[req.key] >= 1000 => Limited /\ resp.remaining = 0
    /\ resp.remaining >= 0

\* C6 amended: a request is served exactly when fewer than 1000 requests were
\* made in the hour and fewer than 100 in the minute; a served request lowers
\* Remaining by one; after 1000 requests in the hour every request is refused as
\* RATE_LIMITED with Remaining 0; the 101st request of a minute is refused as
\* RATE_LIMITED too; Remaining is never below 0 and no more than 1000 requests
\* are served in an hour.
C6_Quota ==
  /\ WithKey =>
       /\ (prev.hour[req.key] < 1000 /\ prev.min[req.key] < 100) =>
            /\ Served
            /\ resp.remaining = 1000 - prev.hour[req.key] - 1
            /\ hourCount[req.key] = prev.hour[req.key] + 1
       /\ prev.hour[req.key] >= 1000 => Limited /\ resp.remaining = 0
       /\ prev.min[req.key] >= 100 => Limited
       /\ Limited => hourCount = prev.hour /\ store = prev.store
       /\ resp.remaining >= 0
  /\ \A k \in ValidKeys : hourCount[k] <= 1000 /\ minCount[k] <= 100

\* The request after the 1000th of an hour.
C6_Witness ==
  /\ WithKey
  /\ prev.hour[req.key] = 1000
  /\ prev.min[req.key] < 100
  /\ Limited
  /\ resp.remaining = 0

\* ----------------------------------------------------------------------- C7
Documented(status) ==
  CASE status = 400 -> {"VALIDATION_ERROR", "INVALID_REQUEST"}
    [] status = 401 -> {"UNAUTHORIZED"}
    [] status = 403 -> {"FORBIDDEN"}
    [] status = 404 -> {"NOT_FOUND"}
    [] status = 409 -> {"CONFLICT"}
    [] status = 422 -> {"UNPROCESSABLE_ENTITY"}
    [] status = 429 -> {"RATE_LIMITED"}
    [] status = 500 -> {"INTERNAL_ERROR"}
    [] status = 502 -> {"BAD_GATEWAY"}
    [] status = 503 -> {"SERVICE_UNAVAILABLE"}
    [] OTHER -> {}

\* A response that is not 2xx reaches the caller as the error of its code, and
\* only a 2xx response is returned as a value.
Surfaced ==
  /\ (call.status # 0 /\ call.status \notin 200..299) =>
       call.state = "thrown" /\ call.code \in Documented(call.status)
  /\ call.state = "returned" => call.status \in 200..299
  /\ (call.state = "thrown" /\ call.status # 0) => call.status \notin 200..299

Answered == {resp.data[i].id : i \in 1..Len(resp.data)}

Own(r, data, x) ==
  /\ x.method = r.method
  /\ x.arg = r.arg
  /\ x.value = IF r.method = "getData" THEN data[r.arg]
               ELSE data["users"] + data["products"]

\* C11: every call that has returned holds the result of its own request,
\* computed from its arguments and the server data at the moment it was served,
\* in whatever order the calls were served and whatever the other calls got;
\* Promise.all hands the results back in the order of the calls.
C11_StatelessCalls ==
  /\ \A i \in 1..Len(flight.calls) :
       flight.calls[i].state = "returned" =>
         Own(flight.calls[i].request, flight.calls[i].at, flight.calls[i].result)
  /\ flight.results # <<>> =>
       /\ Len(flight.results) = Len(flight.calls)
       /\ \A i \in 1..Len(flight.calls) :
            Own(flight.calls[i].request, flight.calls[i].at, flight.results[i])

\* The three calls of the example, served last to first while the data changed
\* in between, all returned.
C11_Witness ==
  /\ Len(flight.calls) = 3
  /\ flight.order = <<3, 1, 2>>
  /\ flight.calls[1].at # flight.calls[3].at
  /\ Len(flight.results) = 3

\* ---------------------------------------------------------------------- C13
\* Every call came less than the delay after the one before it.
OneBurst == \A i \in 2..Len(deb.calls) : deb.calls[i].at - deb.calls[i - 1].at < 300

\* C13: every execution of func has the arguments of the last call made before
\* it and comes no sooner than 300 ms after that call, and no call is executed
\* twice; when all calls came less than 300 ms apart func is executed at most
\* once, and exactly once, for the last call, when more than 300 ms have
\* passed since that call.
C13_Debounce ==
  /\ \A k \in 1..Len(deb.executed) :
       LET e == deb.executed[k]
       IN /\ e.after \in 1..Len(deb.calls)
          /\ e.arg = deb.calls[e.after].arg
          /\ e.at >= deb.calls[e.after].at + 300
          /\ \A j \in 1..Len(deb.executed) :
               deb.executed[j].after = e.after => j = k
  /\ OneBurst =>
       /\ Len(deb.executed) <= 1
       /\ (deb.calls # <<>> /\ deb.now > deb.calls[Len(deb.calls)].at + 300) =>
            /\ Len(deb.executed) = 1
            /\ deb.executed[1].after = Len(deb.calls)

\* 'a', 'ap', 'app', 'apple' typed within the delay: one search, for 'apple'.
C13_Witness ==
  /\ Len(deb.calls) = 4
  /\ OneBurst
  /\ deb.calls[4].at > deb.calls[1].at
  /\ Len(deb.executed) = 1
  /\ deb.executed[1].arg = "apple"
  /\ deb.timer = -1

\* ---------------------------------------------------------------------- C14
\* The value satisfies every constraint of the rule.
Satisfies(v, rule) ==
  CASE v.kind = "absent" -> ~rule.required
    [] v.kind = "string" ->
         /\ rule.type = "string"
         /\ rule.minLength > 0 => v.len >= rule.minLength
         /\ rule.maxLength > 0 => v.len <= rule.maxLength
    [] v.kind = "number" ->
         /\ rule.type = "number"
         /\ rule.min > 0 => v.num >= rule.min
         /\ rule.max > 0 => v.num <= rule.max

Violating == {i \in 1..Len(vs.schema) :
                ~Satisfies(vs.data[vs.schema[i].field], vs.schema[i].rule)}

Named(item) ==
  IF gb.keyOrFunc = "category" THEN item.category
  ELSE CASE item.price \in 0..49 -> "low"
         [] item.price \in 50..99 -> "medium"
         [] OTHER -> "high"

\* C16: the groups are exactly the keys of the items, so none is empty; each
\* group holds the items of its key, every occurrence once, in the order they
\* have in the array; the group sizes add up to the length of the array.
C16_GroupBy ==
  gb.done =>
    /\ DOMAIN gb.result = {Named(gb.array[i]) : i \in 1..Len(gb.array)}
    /\ \A k \in DOMAIN gb.result :
         /\ gb.result[k] # <<>>
         /\ gb.result[k] = SelectSeq(gb.array, LAMBDA item : Named(item) = k)
    /\ Cardinality({ki \in (DOMAIN gb.result) \X (1..Len(gb.array)) :
                      ki[2] <= Len(gb.result[ki[1]])})
         = Len(gb.array)

\* Two books around an item of another category: the books keep their order.
C16_Witness ==
  /\ gb.done
  /\ gb.keyOrFunc = "category"
  /\ Len(gb.array) = 3
  /\ gb.array[1].name = "Item 4" /\ gb.array[3].name = "Item 2"
  /\ DOMAIN gb.result = {"books", "electronics"}
  /\ gb.result["books"] = <<gb.array[1], gb.array[3]>>

\* ---------------------------------------------------------------------- C17
\* The calls made with arg since the given number of clears, oldest first.
CallsOf(arg, clears) ==
  SelectSeq(memo.log, LAMBDA c : c.arg = arg /\ c.clears = clears)

\* C17: between two clears only the first call with an argument calls func and
\* every later call with it returns that first call's result; the size of the
\* cache is the number of distinct arguments called since the last clear, so it
\* is 0 right after a clear; the first call with an argument after a clear
\* computes again.
C17_Memoize ==
  /\ \A arg \in {1, 2, 100}, n \in 0..memo.clears :
       LET cs == CallsOf(arg, n)
       IN \A i \in 1..Len(cs) :
            /\ cs[i].computed <=> i = 1
            /\ cs[i].result = cs[1].result
  /\ Cardinality(DOMAIN memo.cache)
       = Cardinality({arg \in {1, 2, 100} : CallsOf(arg, memo.clears) # <<>>})
  /\ memo.computations = Len(SelectSeq(memo.log, LAMBDA c : c.computed))
  /\ \A arg \in {1, 2, 100}, n \in 1..memo.clears :
       (CallsOf(arg, n) # <<>> /\ CallsOf(arg, n - 1) # <<>>) =>
         CallsOf(arg, n)[1].result # CallsOf(arg, n - 1)[1].result

\* memoized(100) twice, a clear, and memoized(100) again: two computations.
C17_Witness ==
  /\ Len(memo.log) = 3
  /\ \A i \in 1..3 : memo.log[i].arg = 100
  /\ memo.log[2].clears = 0 /\ ~memo.log[2].computed
  /\ memo.log[3].clears = 1 /\ memo.log[3].computed
  /\ Cardinality(DOMAIN memo.cache) = 1

\* ---------------------------------------------------------------------- C18
\* C18: any two operations passed to the limiter start at least
\* 1000 / requestsPerSecond milliseconds apart.
C18_StartsApart ==
  \A i, j \in 1..Len(lim.ops) :
    (i < j /\ lim.ops[i].pc = "started" /\ lim.ops[j].pc = "started") =>
      \/ lim.ops[j].at - lim.ops[i].at >= 1000 \div lim.requestsPerSecond
      \/ lim.ops[i].at - lim.ops[j].at >= 1000 \div lim.requestsPerSecond

\* ---------------------------------------------------------------------- C19
\* The attempts that have ended in success.
Successes == {i \in 1..Len(rb.log) : rb.log[i][1] = "value"}

\* C19: with maxRetries >= 1, fn is invoked at most maxRetries times and never
\* while an earlier invocation is still running; the call resolves with the
\* value of the first attempt that succeeds, and that attempt is the last one.
C19_RetryUntilSuccess ==
  rb.maxRetries >= 1 =>
    /\ rb.calls <= rb.maxRetries
    /\ rb.running <= 1
    /\ rb.calls = Len(rb.log) + rb.running
    /\ Successes \subseteq {Len(rb.log)}
    /\ Successes # {} =>
         /\ rb.pc = "resolved"
         /\ rb.running = 0
         /\ rb.outcome = rb.log[Len(rb.log)]
    /\ rb.pc = "resolved" => Successes # {}

\* Two failures and then a success on the third and last attempt.
C19_Witness ==
  /\ rb.maxRetries = 3
  /\ rb.pc = "resolved"
  /\ rb.calls = 3
  /\ rb.outcome = <<"value", <<"Success!", 3>>>>

\* ---------------------------------------------------------------------- C20
\* C20: with maxRetries >= 1, when maxRetries attempts have failed the call is
\* rejected with the error of the last one, fn was invoked exactly maxRetries
\* times, and there was a wait after every failure but the last; the call is
\* rejected in no other case.
C20_RejectAfterLast ==
  rb.maxRetries >= 1 =>
    LET failed == {i \in 1..Len(rb.log) : rb.log[i][1] = "error"}
    IN /\ Cardinality(failed) = rb.maxRetries =>
            /\ rb.pc = "rejected"
            /\ rb.outcome = rb.log[rb.maxRetries]
            /\ rb.calls = rb.maxRetries
            /\ rb.running = 0
            /\ Len(rb.waits) = rb.maxRetries - 1
       /\ rb.pc = "rejected" => Cardinality(failed) = rb.maxRetries
       /\ Len(rb.waits) <= Cardinality(failed)

\* Three attempts with three different failures: rejected with the third.
C20_Witness ==
  /\ rb.maxRetries = 3
  /\ rb.pc = "rejected"
  /\ rb.log[1][2][1] # rb.log[3][2][1]
  /\ rb.outcome = <<"error", <<"Timeout", 3>>>>
  /\ Len(rb.waits) = 2

\* ---------------------------------------------------------------------- C21
RECURSIVE TotalWait(_)
TotalWait(waits) ==
  IF waits = <<>> THEN 0 ELSE waits[1] + TotalWait(Tail(waits))

\* C21: with maxRetries >= 1, the wait after failed attempt k < maxRetries is
\* baseDelay * 2^(k-1): the first wait is baseDelay and every later one is
\* twice the one before; there is no wait after attempt maxRetries, and when
\* the call gives up it has waited baseDelay * (2^(maxRetries-1) - 1) in all.
C21_ExponentialBackoff ==
  rb.maxRetries >= 1 =>
    /\ Len(rb.waits) < rb.maxRetries
    /\ \A k \in 1..Len(rb.waits) :
         /\ rb.waits[k] = rb.baseDelay * 2^(k - 1)
         /\ rb.log[k][1] = "error"
         /\ k > 1 => rb.waits[k] = 2 * rb.waits[k - 1]
    /\ rb.pc = "rejected" =>
         /\ Len(rb.waits) = rb.maxRetries - 1
         /\ TotalWait(rb.waits) = rb.baseDelay * (2^(rb.maxRetries - 1) - 1)

\* Four attempts of retryWithBackoff(fn, 4, 500) failed: it waited 500, 1000
\* and 2000 ms, 3500 ms in all.
C21_Witness ==
  /\ rb.maxRetries = 4
  /\ rb.baseDelay = 500
  /\ rb.pc = "rejected"
  /\ rb.waits = <<500, 1000, 2000>>
  /\ TotalWait(rb.waits) = 3500

\* ---------------------------------------------------------------------- C22
\* C22: the function withErrorHandling(fn) returns never rejects: a call
\* resolves with fn's result when fn succeeds and with null when fn throws or
\* rejects.
C22_NeverRejects ==
  /\ eh.pc # "rejected"
  /\ \A i \in 1..Len(eh.settled) :
       LET of == eh.settled[i][2]
           outcome == eh.settled[i][3]
       IN /\ of[1] = "value" => outcome = of
          /\ of[1] = "error" => outcome = <<"value", Null>>

\* ---------------------------------------------------------------------- C23
\* C23: whenever createData succeeded, the created item has been deleted by
\* the time apiClientExamples returns, also when a later step failed.
C23_CleansUp ==
  (ex.pc = "returned" /\ ex.createdItem # 0) =>
    /\ ex.createdItem \in ex.deleted
    /\ ex.createdItem \notin ex.items

====
